---- MODULE Spec2Model ----
(***************************************************************************)
(* elysia-background: a per-request queue of deferred async tasks.         *)
(*                                                                         *)
(* The model follows src/unnamed/part_000 (src/index.ts of the package):   *)
(* BackgroundTask, BackgroundTasks and the background() plugin, whose      *)
(* derive() makes one queue per request and whose onAfterResponse hook     *)
(* starts the drain without awaiting it.  The JavaScript runtime is one    *)
(* thread: every action below is one job that runs to its next suspension  *)
(* point, and jobs of different requests interleave between actions.       *)
(***************************************************************************)
EXTENDS Naturals, Sequences, FiniteSets

\* Number of requests the server receives in a behaviour.
NReq == 2
\* Number of addTask calls made in a behaviour, over all requests.
MaxTasks == 3
\* Number of calls of run() made in a behaviour besides the hook's, over all
\* queues.
MaxReruns == 1

Requests == 1..NReq

\* thread = Free: no job is executing, the event loop can pick the next one.
Free == 0

(***************************************************************************)
(* Task functions.  ctor is func.constructor.name; awaits says whether the *)
(* body has a suspension point (a sleep) before it finishes; throws says   *)
(* whether the body ends by throwing.  Every body adds its bound amount to *)
(* the request's counter in its last segment.                              *)
(***************************************************************************)
\* async (amount) => { counter += amount }
Increment == [ctor |-> "AsyncFunction", awaits |-> FALSE, throws |-> FALSE]

\* async () => { started; await sleep(5000); complete }
SlowTask == [ctor |-> "AsyncFunction", awaits |-> TRUE, throws |-> FALSE]

\* async () => { counter += 1; throw new Error('task failed') }
FailingTask == [ctor |-> "AsyncFunction", awaits |-> FALSE, throws |-> TRUE]

\* () => { taskComplete = true }
SyncTask == [ctor |-> "Function", awaits |-> FALSE, throws |-> FALSE]

\* (ms) => { return Bun.sleep(ms) }: not declared async, returns a promise.
PromiseTask == [ctor |-> "Function", awaits |-> TRUE, throws |-> FALSE]

Functions == {Increment, SlowTask, FailingTask, SyncTask, PromiseTask}

\* The configured options.onError: absent, a plain function, an async function,
\* a plain function that throws, an async function that rejects after its await.
OnErrorKinds == {"none", "sync", "async", "syncThrow", "asyncReject"}

\* The message of the Error BackgroundTask.run throws for a non-async function.
SyncMessage == "Background task does not support synchronous functions. Please use async functions."

\* The fixed tag of the default sink.
Tag == "[elysia-background] Task failed:"

\* Error objects: a fresh object per throw, identified by the task that threw.
TaskError(r, k) == [message |-> "task failed", task |-> <<r, k>>]

SyncError(r, k) == [message |-> SyncMessage, task |-> <<r, k>>]

NoError == [message |-> "", task |-> <<0, 0>>]

\* The error a failing onError raises while handling r's failed drain.
HandlerError(r) == [message |-> "handler failed", task |-> <<r, 0>>]

\* No response has been produced yet.
NoResponse == [status |-> 0, body |-> ""]

\* What the route handler returns: status 200, body 'task initiated'.
HandlerResult == [status |-> 200, body |-> "task initiated"]

VARIABLES
    phase,        \* request -> "new" | "handling" | "responded" | "afterResponse"
    thread,       \* Free, or the request whose synchronous code holds the thread
    tasks,        \* request -> its queue: Seq of [func, args, isAsync]
    st,           \* request -> per task: "queued" | "suspended" | "ok" | "threw" | "refused"
    started,      \* request -> positions whose callable was invoked, in invocation order
    counter,      \* request -> the counter its tasks add to
    run,          \* request -> the latest call of BackgroundTasks.run():
              \*            [status, idx, err, calls]
    catchSt,      \* request -> the .catch callback: "none" | "attached" | "done" | "waiting"
    onError,      \* the plugin's options.onError kind
    onErrorCalls, \* request -> arguments onError was called with
    consoleCalls, \* request -> what console.error was called with
    handler,      \* request -> the onError invocation: "none" | "suspended" | "done"
                  \*            | "threw" | "rejected"
    unhandled,    \* errors that ended as unhandled rejections
    response      \* request -> the response handed to the client, or NoResponse

vars == <<phase, thread, tasks, st, started, counter, run, catchSt, onError,
          onErrorCalls, consoleCalls, handler, unhandled,
          response>>

sinkVars == <<onErrorCalls, consoleCalls, handler>>

\* A classification by what the call gives back: a promise, or not.
isAsyncFunction_ByResult(func) == func.ctor = "AsyncFunction" \/ func.awaits

\* func.constructor.name === 'AsyncFunction'
isAsyncFunction(func) == func.ctor = "AsyncFunction"

\* new BackgroundTask(func, ...args)
BackgroundTask(func, args) ==
    [func |-> func, args |-> args, isAsync |-> isAsyncFunction(func)]

\* The arguments a handler binds to its k-th task: the amount k (the test's
\* increment 1, 2, 3) and a second argument that the callable does not read,
\* a label of who bound them (0: the handler, 1: code that ran later).
HandlerArgs(k) == <<k, 0>>

\* The arguments bound to a k-th task that is added after the response.
LateArgs(k) == <<k, 1>>

\* A call that passes the bound arguments last to first.
CallArguments_Reversed(args) == [i \in 1..Len(args) |-> args[Len(args) + 1 - i]]

\* this.func(...this.args): the callable receives the bound arguments, in the
\* order they were bound.
CallArguments(args) == args

\* counter += amount: the callable adds its first parameter to the counter.
Amount(task) == CallArguments(task.args)[1]

TotalTasks == LET RECURSIVE Sum(_)
                  Sum(n) == IF n = 0 THEN 0 ELSE Len(tasks[n]) + Sum(n - 1)
              IN Sum(NReq)

\* The calls of run() made so far besides the hook's, over all queues.
TotalReruns == LET RECURSIVE Sum(_)
                   Sum(n) == IF n = 0 THEN 0
                             ELSE (IF run[n].calls > 1 THEN run[n].calls - 1 ELSE 0)
                                  + Sum(n - 1)
               IN Sum(NReq)

\* A request's drain or error handler is suspended on a timer.
Suspended(r) ==
    \/ \E k \in 1..Len(st[r]) : st[r][k] = "suspended"
    \/ handler[r] = "suspended"

Init ==
    /\ phase = [r \in Requests |-> "new"]
    /\ thread = Free
    /\ tasks = [r \in Requests |-> <<>>]
    /\ st = [r \in Requests |-> <<>>]
    /\ started = [r \in Requests |-> <<>>]
    /\ counter = [r \in Requests |-> 0]
    /\ run = [r \in Requests |->
                [status |-> "none", idx |-> 0, err |-> NoError, calls |-> 0]]
    /\ catchSt = [r \in Requests |-> "none"]
    /\ onError \in OnErrorKinds
    /\ onErrorCalls = [r \in Requests |-> <<>>]
    /\ consoleCalls = [r \in Requests |-> <<>>]
    /\ handler = [r \in Requests |-> "none"]
    /\ unhandled = {}
    /\ response = [r \in Requests |-> NoResponse]

(***************************************************************************)
(* The request handler (synchronous, as in the tests): derive() makes the  *)
(* queue, the handler calls addTask, then returns the response.            *)
(***************************************************************************)
\* derive(() => ({ backgroundTasks: new BackgroundTasks() })); requests are
\* numbered in arrival order.
Arrive(r) ==
    /\ thread = Free
    /\ phase[r] = "new"
    /\ \A q \in Requests : q < r => phase[q] # "new"
    /\ phase' = [phase EXCEPT ![r] = "handling"]
    /\ thread' = r
    /\ tasks' = [tasks EXCEPT ![r] = <<>>]
    /\ UNCHANGED <<st, started, counter, run, catchSt, onError, sinkVars, unhandled,
                   response>>

\* An addTask that runs the task as it enqueues it.
AddTask_Eager(r, func) ==
    LET task == BackgroundTask(func, HandlerArgs(Len(tasks[r]) + 1))
        outcome == IF task.isAsync
                   THEN (IF func.awaits THEN "suspended"
                         ELSE IF func.throws THEN "threw" ELSE "ok")
                   ELSE "refused"
    IN /\ thread = r
       /\ phase[r] = "handling"
       /\ TotalTasks < MaxTasks
       /\ tasks' = [tasks EXCEPT ![r] = Append(@, task)]
       /\ st' = [st EXCEPT ![r] = Append(@, outcome)]
       /\ started' = [started EXCEPT ![r] =
                         IF outcome = "refused" THEN @ ELSE Append(@, Len(tasks[r]) + 1)]
       /\ UNCHANGED <<phase, thread, counter, run, catchSt, onError,
                      sinkVars, unhandled, response>>

\* An addTask over one task array shared by every queue.
AddTask_Shared(r, func) ==
    /\ thread = r
    /\ phase[r] = "handling"
    /\ TotalTasks < MaxTasks
    /\ tasks' = [q \in Requests |->
                    Append(tasks[q], BackgroundTask(func, HandlerArgs(Len(tasks[q]) + 1)))]
    /\ st' = [q \in Requests |-> Append(st[q], "queued")]
    /\ UNCHANGED <<phase, thread, started, counter, run, catchSt, onError,
                   sinkVars, unhandled, response>>

\* An addTask that puts the task at the front of the queue.
AddTask_Prepend(r, func) ==
    /\ thread = r
    /\ phase[r] = "handling"
    /\ TotalTasks < MaxTasks
    /\ tasks' = [tasks EXCEPT ![r] =
                    <<BackgroundTask(func, HandlerArgs(Len(tasks[r]) + 1))>> \o @]
    /\ st' = [st EXCEPT ![r] = Append(@, "queued")]
    /\ UNCHANGED <<phase, thread, started, counter, run, catchSt, onError,
                   sinkVars, unhandled, response>>

\* An addTask whose constructor throws for a function that is not async.
AddTask_Validating(r, func) ==
    /\ thread = r
    /\ phase[r] = "handling"
    /\ TotalTasks < MaxTasks
    /\ isAsyncFunction(func)
    /\ tasks' = [tasks EXCEPT ![r] =
                    Append(@, BackgroundTask(func, HandlerArgs(Len(tasks[r]) + 1)))]
    /\ st' = [st EXCEPT ![r] = Append(@, "queued")]
    /\ UNCHANGED <<phase, thread, started, counter, run, catchSt, onError,
                   sinkVars, unhandled, response>>

\* addTask(func, ...args): the handler binds to its k-th task the arguments
\* HandlerArgs(k).
AddTask(r, func) ==
    /\ thread = r
    /\ phase[r] = "handling"
    /\ TotalTasks < MaxTasks
    /\ tasks' = [tasks EXCEPT ![r] =
                    Append(@, BackgroundTask(func, HandlerArgs(Len(tasks[r]) + 1)))]
    /\ st' = [st EXCEPT ![r] = Append(@, "queued")]
    /\ UNCHANGED <<phase, thread, started, counter, run, catchSt, onError,
                   sinkVars, unhandled, response>>

\* The handler returns; the response is produced and handed off.
Respond(r) ==
    /\ thread = r
    /\ phase[r] = "handling"
    /\ phase' = [phase EXCEPT ![r] = "responded"]
    /\ thread' = Free
    /\ response' = [response EXCEPT ![r] = HandlerResult]
    /\ UNCHANGED <<tasks, st, started, counter, run, catchSt, onError,
                   sinkVars, unhandled>>

(***************************************************************************)
(* BackgroundTask.run                                                      *)
(***************************************************************************)
\* The callable invoked: it runs to its first await, or to its end.
CallFirstSegment(func) ==
    IF func.awaits THEN "suspended"
    ELSE IF func.throws THEN "threw" ELSE "ok"

\* The callable resumed after its await: it runs to its end.
CallResume(func) == IF func.throws THEN "threw" ELSE "ok"

\* A run() without the isAsync check: every function is invoked.
BackgroundTaskRun_NoCheck(task) == CallFirstSegment(task.func)

\* BackgroundTask.run(): an async function is invoked, any other is refused
\* with an Error and not invoked.
BackgroundTaskRun(task) ==
    IF task.isAsync THEN CallFirstSegment(task.func) ELSE "refused"

\* A run() that waits for the callable without yielding: the thread is kept
\* while the callable is suspended.
Releases_BusyWait(outcome) == outcome \in {"ok", "threw", "refused"}

\* await this.func(...args): the job that ran the task leaves the thread when
\* the callable suspends, returns or throws, and when the task is refused.
Releases(outcome) == outcome \in {"suspended", "ok", "threw", "refused"}

\* The callable's body has finished (its side effect is complete).
Finished(s) == s \in {"ok", "threw"}

\* run() of the task at position k of r's queue, up to the first suspension.
InvokeTask(r, k) ==
    LET task == tasks[r][k]
        outcome == BackgroundTaskRun(task)
    IN /\ st' = [st EXCEPT ![r][k] = outcome]
       /\ started' = [started EXCEPT ![r] =
                         IF outcome = "refused" THEN @ ELSE Append(@, k)]
       /\ counter' = [counter EXCEPT ![r] =
                         IF Finished(outcome) THEN @ + Amount(task) ELSE @]
       /\ thread' = IF Releases(outcome) THEN Free ELSE r

\* The error the task at position k of r's queue rejected with.
ErrOf(r, k) == IF st[r][k] = "refused" THEN SyncError(r, k) ELSE TaskError(r, k)

\* The timer a callable awaits fires: the body runs to its end.
TaskResume(r) ==
    /\ thread = Free
    /\ \E k \in 1..Len(st[r]) :
          /\ st[r][k] = "suspended"
          /\ st' = [st EXCEPT ![r][k] = CallResume(tasks[r][k].func)]
          /\ counter' = [counter EXCEPT ![r] = @ + Amount(tasks[r][k])]
    /\ UNCHANGED <<phase, thread, tasks, started, run, catchSt, onError,
                   sinkVars, unhandled, response>>

(***************************************************************************)
(* BackgroundTasks.run: for (const task of this.tasks) await task.run()    *)
(***************************************************************************)
\* A loop that resumes only when the awaited task fulfilled: a rejection is
\* never seen.
Settled_OkOnly(r, k) == st[r][k] = "ok"

\* task.run() called without await: the loop goes on at once.
Settled_NoAwait(r, k) == TRUE

\* await task.run() resumes only once the task's promise has settled.
Settled(r, k) == st[r][k] \in {"ok", "threw", "refused"}

\* A loop that catches and drops the rejection of a task.
AwaitRejects_Swallow(s) == FALSE

\* await task.run() throws when the task's promise rejected.
AwaitRejects(s) == s \in {"threw", "refused"}

\* The value run() rejects with: the awaited rejection, rethrown as it is.
RunRejection(e) == e

\* A loop over a copy of the array taken when run() was called: tasks that
\* were added later are not in it.
HasNext_Snapshot(r, k) ==
    k < Cardinality({i \in 1..Len(tasks[r]) : tasks[r][i].args[2] = 0})

\* A loop that stops one task early.
HasNext_OffByOne(r, k) == k + 1 < Len(tasks[r])

\* for (const task of this.tasks): the iterator has a task after position k.
HasNext(r, k) == k < Len(tasks[r])

\* A run() that looks through the whole queue first and rejects, before
\* starting anything, when some task holds a synchronous function.
Hook_Prevalidate(r) ==
    LET bad == {k \in 1..Len(tasks[r]) : ~tasks[r][k].isAsync}
        first == CHOOSE k \in bad : \A j \in bad : k <= j
    IN /\ thread = Free
       /\ phase[r] = "responded"
       /\ phase' = [phase EXCEPT ![r] = "afterResponse"]
       /\ catchSt' = [catchSt EXCEPT ![r] = "attached"]
       /\ IF Len(tasks[r]) = 0
          THEN /\ run' = [run EXCEPT ![r].status = "resolved", ![r].calls = @ + 1]
               /\ UNCHANGED <<st, started, counter, thread>>
          ELSE IF bad # {}
          THEN /\ run' = [run EXCEPT ![r].status = "pending", ![r].idx = first,
                                     ![r].calls = @ + 1]
               /\ st' = [st EXCEPT ![r][first] = "refused"]
               /\ UNCHANGED <<started, counter, thread>>
          ELSE /\ run' = [run EXCEPT ![r].status = "pending", ![r].idx = 1,
                                  ![r].calls = @ + 1]
               /\ InvokeTask(r, 1)
       /\ UNCHANGED <<tasks, onError, sinkVars, unhandled, response>>

\* A run() that yields to the event loop before its first task: nothing is
\* invoked inside the hook's call.
Hook_Deferred(r) ==
    /\ thread = Free
    /\ phase[r] = "responded"
    /\ phase' = [phase EXCEPT ![r] = "afterResponse"]
    /\ catchSt' = [catchSt EXCEPT ![r] = "attached"]
    /\ run' = [run EXCEPT ![r].status = "pending", ![r].calls = @ + 1]
    /\ UNCHANGED <<st, started, counter, thread>>
    /\ UNCHANGED <<tasks, onError, sinkVars, unhandled, response>>

\* A run() that takes the first task without looking at the length: an empty
\* queue rejects with a TypeError.
Hook_NoEmptyCheck(r) ==
    /\ thread = Free
    /\ phase[r] = "responded"
    /\ phase' = [phase EXCEPT ![r] = "afterResponse"]
    /\ catchSt' = [catchSt EXCEPT ![r] = "attached"]
    /\ IF Len(tasks[r]) = 0
       THEN /\ run' = [run EXCEPT ![r].status = "rejected",
                                  ![r].err = [message |-> "TypeError", task |-> <<r, 0>>],
                                  ![r].calls = @ + 1]
            /\ UNCHANGED <<st, started, counter, thread>>
       ELSE /\ run' = [run EXCEPT ![r].status = "pending", ![r].idx = 1,
                                  ![r].calls = @ + 1]
            /\ InvokeTask(r, 1)
    /\ UNCHANGED <<tasks, onError, sinkVars, unhandled, response>>

\* The hook: backgroundTasks.run().catch(...), not awaited.  run() starts the
\* first task synchronously; an empty queue resolves at once.
Hook(r) ==
    /\ thread = Free
    /\ phase[r] = "responded"
    /\ phase' = [phase EXCEPT ![r] = "afterResponse"]
    /\ catchSt' = [catchSt EXCEPT ![r] = "attached"]
    /\ IF Len(tasks[r]) = 0
       THEN /\ run' = [run EXCEPT ![r].status = "resolved", ![r].calls = @ + 1]
            /\ UNCHANGED <<st, started, counter, thread>>
       ELSE /\ run' = [run EXCEPT ![r].status = "pending", ![r].idx = 1,
                                  ![r].calls = @ + 1]
            /\ InvokeTask(r, 1)
    /\ UNCHANGED <<tasks, onError, sinkVars, unhandled, response>>

\* A hook that reports the outcome of the drain to the client.
ResponseAfterDrain_Reports(resp, status) ==
    IF status = "rejected" THEN [status |-> 500, body |-> "task failed"] ELSE resp

\* The hook neither returns nor throws the outcome of the drain: the response
\* that was handed off stays as it is.
ResponseAfterDrain(resp, status) == resp

\* A loop that gives up on a task that is still waiting: it rejects with a
\* timeout error.
RunAdvance_Timeout(r) ==
    LET k == run[r].idx
        e == IF st[r][k] = "suspended"
             THEN [message |-> "timeout", task |-> <<r, k>>]
             ELSE ErrOf(r, k)
    IN /\ thread = Free
       /\ run[r].status = "pending"
       /\ k >= 1
       /\ Settled(r, k) \/ st[r][k] = "suspended"
       /\ IF AwaitRejects(st[r][k]) \/ st[r][k] = "suspended"
          THEN /\ run' = [run EXCEPT ![r].status = "rejected", ![r].err = e]
               /\ unhandled' = IF catchSt[r] = "attached" THEN unhandled
                               ELSE unhandled \cup {e}
               /\ UNCHANGED <<st, started, counter, thread, response>>
          ELSE IF HasNext(r, k)
          THEN /\ run' = [run EXCEPT ![r].idx = k + 1]
               /\ InvokeTask(r, k + 1)
               /\ UNCHANGED <<unhandled, response>>
          ELSE /\ run' = [run EXCEPT ![r].status = "resolved"]
               /\ UNCHANGED <<st, started, counter, thread, unhandled, response>>
       /\ UNCHANGED <<phase, tasks, catchSt, onError, sinkVars>>

\* A loop that looks at a failure flag shared by all queues: once a drain has
\* failed, every other drain fails with the same error at its next step.
RunAdvance_SharedAbort(r) ==
    LET k == run[r].idx
        failed == {q \in Requests : run[q].status = "rejected"}
        e == IF AwaitRejects(st[r][k]) THEN ErrOf(r, k)
             ELSE run[CHOOSE q \in failed : TRUE].err
    IN /\ thread = Free
       /\ run[r].status = "pending"
       /\ k >= 1
       /\ Settled(r, k)
       /\ IF AwaitRejects(st[r][k]) \/ failed # {}
          THEN /\ run' = [run EXCEPT ![r].status = "rejected", ![r].err = e]
               /\ unhandled' = IF catchSt[r] = "attached" THEN unhandled
                               ELSE unhandled \cup {e}
               /\ UNCHANGED <<st, started, counter, thread, response>>
          ELSE IF HasNext(r, k)
          THEN /\ run' = [run EXCEPT ![r].idx = k + 1]
               /\ InvokeTask(r, k + 1)
               /\ UNCHANGED <<unhandled, response>>
          ELSE /\ run' = [run EXCEPT ![r].status = "resolved"]
               /\ UNCHANGED <<st, started, counter, thread, unhandled, response>>
       /\ UNCHANGED <<phase, tasks, catchSt, onError, sinkVars>>

\* The loop of run() continues after the awaited task has settled: it rethrows
\* the task's rejection, or starts the next task, or ends.
RunAdvance(r) ==
    LET k == run[r].idx
    IN /\ thread = Free
       /\ run[r].status = "pending"
       /\ k >= 1
       /\ Settled(r, k)
       /\ IF AwaitRejects(st[r][k])
          THEN /\ run' = [run EXCEPT ![r].status = "rejected",
                                     ![r].err = RunRejection(ErrOf(r, k))]
               /\ unhandled' = IF catchSt[r] = "attached" THEN unhandled
                               ELSE unhandled \cup {RunRejection(ErrOf(r, k))}
               /\ response' = [response EXCEPT ![r] = ResponseAfterDrain(@, "rejected")]
               /\ UNCHANGED <<st, started, counter, thread>>
          ELSE IF HasNext(r, k)
          THEN /\ run' = [run EXCEPT ![r].idx = k + 1]
               /\ InvokeTask(r, k + 1)
               /\ UNCHANGED <<unhandled, response>>
          ELSE /\ run' = [run EXCEPT ![r].status = "resolved"]
               /\ response' = [response EXCEPT ![r] = ResponseAfterDrain(@, "resolved")]
               /\ UNCHANGED <<st, started, counter, thread, unhandled>>
       /\ UNCHANGED <<phase, tasks, catchSt, onError, sinkVars>>

(***************************************************************************)
(* The .catch callback of the hook                                         *)
(***************************************************************************)
\* A callback that passes onError a new error made from the task's.
Sinks_Wrapped(e) ==
    IF onError # "none"
    THEN [onErrorArgs |-> <<[message |-> e.message, task |-> <<0, 0>>]>>,
          consoleArgs |-> <<>>]
    ELSE [onErrorArgs |-> <<>>, consoleArgs |-> <<[tag |-> Tag, error |-> e]>>]

\* A callback without the else: console.error is called in both cases.
Sinks_Both(e) ==
    [onErrorArgs |-> IF onError # "none" THEN <<e>> ELSE <<>>,
     consoleArgs |-> <<[tag |-> Tag, error |-> e]>>]

\* A callback that logs under the tag of the example's handler.
Sinks_OtherTag(e) ==
    IF onError # "none"
    THEN [onErrorArgs |-> <<e>>, consoleArgs |-> <<>>]
    ELSE [onErrorArgs |-> <<>>,
          consoleArgs |-> <<[tag |-> "[elysia-background] Task error:", error |-> e]>>]

\* What the callback calls: options.onError(error) if configured, else
\* console.error(tag, error).
Sinks(e) ==
    IF onError # "none"
    THEN [onErrorArgs |-> <<e>>, consoleArgs |-> <<>>]
    ELSE [onErrorArgs |-> <<>>, consoleArgs |-> <<[tag |-> Tag, error |-> e]>>]

\* A callback that awaits what onError returns.
CatchCallbackEnd_Awaits(h) == IF h = "suspended" THEN "waiting" ELSE "done"

\* The callback does not await or return what onError returns: it is done as
\* soon as onError has been called.
CatchCallbackEnd(h) == "done"

\* onError invoked: a plain function runs to its end or to its throw, an async
\* one to its await.
OnErrorStart(kind) ==
    IF kind \in {"async", "asyncReject"} THEN "suspended"
    ELSE IF kind = "syncThrow" THEN "threw" ELSE "done"

\* The async onError resumed after its await: it returns, or it rejects.
OnErrorEnd(kind) == IF kind = "asyncReject" THEN "rejected" ELSE "done"

\* A callback that wraps onError in try/catch and falls back to console.error.
OnErrorFailure_Fallback(e) ==
    [unhandled |-> {}, consoleArgs |-> <<[tag |-> Tag, error |-> e]>>]

\* A failure of onError is not caught: "If error handler throws, it becomes
\* unhandled rejection"; nothing is logged for it.
OnErrorFailure(e) == [unhandled |-> {e}, consoleArgs |-> <<>>]

\* What a failed onError invocation of r leaves behind; nothing otherwise.
FailureOf(r, h) ==
    IF h \in {"threw", "rejected"} THEN OnErrorFailure(HandlerError(r))
    ELSE [unhandled |-> {}, consoleArgs |-> <<>>]

\* A callback attached with .finally: it runs for a resolved drain too.
CatchHandler_Finally(r) ==
    LET s == Sinks(run[r].err)
        h == IF s.onErrorArgs = <<>> THEN handler[r] ELSE OnErrorStart(onError)
    IN /\ thread = Free
       /\ run[r].status \in {"rejected", "resolved"}
       /\ catchSt[r] = "attached"
       /\ onErrorCalls' = [onErrorCalls EXCEPT ![r] = @ \o s.onErrorArgs]
       /\ consoleCalls' = [consoleCalls EXCEPT ![r] = @ \o s.consoleArgs]
       /\ handler' = [handler EXCEPT ![r] = h]
       /\ catchSt' = [catchSt EXCEPT ![r] = "done"]
       /\ UNCHANGED <<phase, thread, tasks, st, started, counter, run, onError,
                      unhandled, response>>

\* backgroundTasks.run().catch((error) => { ... }): the callback runs once,
\* for a rejected drain.
CatchHandler(r) ==
    LET s == Sinks(run[r].err)
        h == IF s.onErrorArgs = <<>> THEN handler[r] ELSE OnErrorStart(onError)
    IN /\ thread = Free
       /\ run[r].status = "rejected"
       /\ catchSt[r] = "attached"
       /\ onErrorCalls' = [onErrorCalls EXCEPT ![r] = @ \o s.onErrorArgs]
       /\ consoleCalls' = [consoleCalls EXCEPT ![r] =
                              @ \o s.consoleArgs \o FailureOf(r, h).consoleArgs]
       /\ handler' = [handler EXCEPT ![r] = h]
       /\ catchSt' = [catchSt EXCEPT ![r] = CatchCallbackEnd(h)]
       /\ unhandled' = unhandled \cup FailureOf(r, h).unhandled
       /\ UNCHANGED <<phase, thread, tasks, st, started, counter, run, onError, response>>

\* The timer an async onError awaits fires: the handler runs to its end, or
\* to the throw that rejects its promise.
OnErrorResume(r) ==
    /\ thread = Free
    /\ handler[r] = "suspended"
    /\ handler' = [handler EXCEPT ![r] = OnErrorEnd(onError)]
    /\ consoleCalls' = [consoleCalls EXCEPT ![r] =
                           @ \o FailureOf(r, OnErrorEnd(onError)).consoleArgs]
    /\ unhandled' = unhandled \cup FailureOf(r, OnErrorEnd(onError)).unhandled
    /\ UNCHANGED <<phase, thread, tasks, st, started, counter, run, catchSt,
                   onError, onErrorCalls, response>>

(***************************************************************************)
(* Other callers of the queue: BackgroundTasks is exported and the queue   *)
(* is handed to the handler, so code that holds it can call addTask after  *)
(* the response and can call run() itself.                                 *)
(***************************************************************************)
\* addTask called on r's queue while its drain is in progress (from a task's
\* body or from a timer the handler set): the same constructor and push.
LateAddTask(r, func) ==
    /\ thread = Free
    /\ phase[r] = "afterResponse"
    /\ run[r].status = "pending"
    /\ TotalTasks < MaxTasks
    /\ tasks' = [tasks EXCEPT ![r] =
                    Append(@, BackgroundTask(func, LateArgs(Len(tasks[r]) + 1)))]
    /\ st' = [st EXCEPT ![r] = Append(@, "queued")]
    /\ UNCHANGED <<phase, thread, started, counter, run, catchSt, onError,
                   sinkVars, unhandled, response>>

\* A run() that remembers what it has executed: a later call finds nothing
\* left to do.
RunAgain_Resume(r) ==
    /\ thread = Free
    /\ phase[r] = "afterResponse"
    /\ run[r].status \in {"resolved", "rejected"}
    /\ catchSt[r] = "attached" => run[r].status = "resolved"
    /\ TotalReruns < MaxReruns
    /\ run' = [run EXCEPT ![r].status = "resolved", ![r].calls = @ + 1]
    /\ UNCHANGED <<phase, thread, tasks, st, started, counter, catchSt, onError,
                   sinkVars, unhandled, response>>

\* run() called again on r's queue, with no handler on its promise, after the
\* hook's call has settled and its callback, if due, has run.  The loop
\* starts over the same array: the first task is run again, every task has
\* a new promise.
RunAgain(r) ==
    LET n == Len(tasks[r])
        outcome == BackgroundTaskRun(tasks[r][1])
    IN /\ thread = Free
       /\ phase[r] = "afterResponse"
       /\ run[r].status \in {"resolved", "rejected"}
       /\ catchSt[r] = "attached" => run[r].status = "resolved"
       /\ TotalReruns < MaxReruns
       /\ IF n = 0
          THEN /\ run' = [run EXCEPT ![r].status = "resolved", ![r].calls = @ + 1]
               /\ UNCHANGED <<st, started, counter, thread>>
          ELSE /\ run' = [run EXCEPT ![r].status = "pending", ![r].idx = 1,
                                     ![r].err = NoError, ![r].calls = @ + 1]
               /\ st' = [st EXCEPT ![r] =
                            [i \in 1..n |-> IF i = 1 THEN outcome ELSE "queued"]]
               /\ started' = [started EXCEPT ![r] =
                                 IF outcome = "refused" THEN @ ELSE Append(@, 1)]
               /\ counter' = [counter EXCEPT ![r] =
                                 IF Finished(outcome) THEN @ + Amount(tasks[r][1])
                                 ELSE @]
               /\ thread' = IF Releases(outcome) THEN Free ELSE r
       /\ UNCHANGED <<phase, tasks, catchSt, onError, sinkVars, unhandled, response>>

Next ==
    \E r \in Requests :
        \/ Arrive(r)
        \/ \E func \in Functions : AddTask(r, func)
        \/ Respond(r)
        \/ Hook(r)
        \/ RunAdvance(r)
        \/ TaskResume(r)
        \/ CatchHandler(r)
        \/ OnErrorResume(r)

Spec == Init /\ [][Next]_vars

\* The runtime runs every ready job and fires every timer; the handler of a
\* request that arrived returns.  Arrivals and addTask calls are the
\* environment's.
Fairness ==
    \A r \in Requests :
        /\ WF_vars(Respond(r))
        /\ WF_vars(Hook(r))
        /\ WF_vars(RunAdvance(r))
        /\ WF_vars(TaskResume(r))
        /\ WF_vars(CatchHandler(r))
        /\ WF_vars(OnErrorResume(r))

FairSpec == Spec /\ Fairness

\* The queue and its drain read no option of the plugin (addTask, both run()
\* methods and the timers never look at onError), so properties of the queue
\* alone are checked with one configuration: an async onError, under which
\* every step of the hook still happens.
QueueInit == Init /\ onError = "async"

QueueSpec == QueueInit /\ [][Next]_vars

QueueFairSpec == QueueSpec /\ Fairness

\* The plugin's requests, and code that adds tasks to a queue under drain.
LateAddNext ==
    \/ Next
    \/ \E r \in Requests : \E func \in Functions : LateAddTask(r, func)

LateAddSpec == QueueInit /\ [][LateAddNext]_vars

\* A plugin configured without onError (the callback logs with console.error,
\* so no onError invocation is ever resumed), and code that calls run() on a
\* queue again.
RerunInit == Init /\ onError = "none"

RerunNext ==
    \E r \in Requests :
        \/ Arrive(r)
        \/ \E func \in Functions : AddTask(r, func)
        \/ Respond(r)
        \/ Hook(r)
        \/ RunAdvance(r)
        \/ TaskResume(r)
        \/ CatchHandler(r)
        \/ RunAgain(r)

RerunSpec == RerunInit /\ [][RerunNext]_vars

(***************************************************************************)
(* Properties                                                              *)
(***************************************************************************)
\* The positions 1..n, in order.
Positions(n) == [i \in 1..n |-> i]

\* The positions of r's queue whose callable is running: invoked, not finished.
Running(r) == {k \in 1..Len(st[r]) : st[r][k] = "suspended"}

\* The error values the tasks of r have raised so far.
Raised(r) ==
    {TaskError(r, k) : k \in {j \in 1..Len(st[r]) : st[r][j] = "threw"}}
    \cup {SyncError(r, k) : k \in {j \in 1..Len(st[r]) : st[r][j] = "refused"}}

\* The sum of the amounts bound to the tasks of r at the positions in S.
RECURSIVE SumArgs(_, _)
SumArgs(r, S) ==
    IF S = {} THEN 0
    ELSE LET k == CHOOSE j \in S : TRUE
         IN tasks[r][k].args[1] + SumArgs(r, S \ {k})

\* C1: in every queue the callables are invoked in addTask order (the
\* invocation log is 1, 2, ..., n), the k-th callable is invoked only after
\* the (k-1)-th task has settled successfully, and at most one task of a
\* queue is running at any time.
C1_SequentialOrder ==
    \A r \in Requests :
        /\ started[r] = Positions(Len(started[r]))
        /\ \A k \in 2..Len(st[r]) : st[r][k] # "queued" => st[r][k - 1] = "ok"
        /\ Cardinality(Running(r)) <= 1

\* C1 witness: a queue of three tasks, the first of them suspending, has been
\* drained to the end.
C1_Witness ==
    \E r \in Requests :
        /\ Len(tasks[r]) = 3
        /\ tasks[r][1].func = SlowTask
        /\ started[r] = <<1, 2, 3>>
        /\ \A k \in 1..3 : st[r][k] = "ok"

\* C2: once the task at position k has failed, no task after k is ever
\* started, run() never resolves, and when run() has rejected its value is
\* exactly the error task k raised.
C2_FailFast ==
    \A r \in Requests :
        /\ \A k \in 1..Len(st[r]) :
              st[r][k] \in {"threw", "refused"} =>
                 /\ \A j \in 1..Len(st[r]) : j > k => st[r][j] = "queued"
                 /\ \A i \in 1..Len(started[r]) : started[r][i] <= k
                 /\ run[r].status \in {"pending", "rejected"}
                 /\ run[r].status = "rejected" =>
                       run[r].err = IF st[r][k] = "threw" THEN TaskError(r, k)
                                    ELSE SyncError(r, k)
        /\ run[r].status = "rejected" =>
              \E k \in 1..Len(st[r]) : st[r][k] \in {"threw", "refused"}

\* C2 witness: T1 failed, T2 would succeed; run() rejected with T1's error and
\* T2 was not started.
C2_Witness ==
    \E r \in Requests :
        /\ Len(tasks[r]) >= 2
        /\ tasks[r][1].func = FailingTask
        /\ tasks[r][2].func = Increment
        /\ run[r].status = "rejected"
        /\ run[r].err = TaskError(r, 1)
        /\ st[r][2] = "queued"

\* C3: until the after-response hook of a request has run, no task of the
\* request has been started: no callable invoked, no side effect, no drain.
C3_AfterResponseOnly ==
    \A r \in Requests :
        phase[r] # "afterResponse" =>
            /\ started[r] = <<>>
            /\ \A k \in 1..Len(st[r]) : st[r][k] = "queued"
            /\ counter[r] = 0
            /\ run[r].status = "none"

\* C3 witness: the response of a request that enqueued two tasks has been
\* handed off and the hook has not run yet.
C3_Witness ==
    \E r \in Requests :
        /\ phase[r] = "responded"
        /\ Len(tasks[r]) = 2
        /\ started[r] = <<>>

\* C4: a callable that is not an async function is never invoked and has no
\* side effect; when the drain reaches it the task is refused and run() can
\* only reject, with the synchronous-function error of that task.
C4_SyncRefused ==
    \A r \in Requests :
        /\ \A k \in 1..Len(tasks[r]) :
              tasks[r][k].func.ctor # "AsyncFunction" =>
                 /\ st[r][k] \in {"queued", "refused"}
                 /\ \A i \in 1..Len(started[r]) : started[r][i] # k
                 /\ run[r].idx = k =>
                       /\ st[r][k] = "refused"
                       /\ run[r].status \in {"pending", "rejected"}
                       /\ run[r].status = "rejected" =>
                             run[r].err = [message |-> SyncMessage, task |-> <<r, k>>]
        /\ counter[r] =
              SumArgs(r, {k \in 1..Len(st[r]) :
                             /\ st[r][k] \in {"ok", "threw"}
                             /\ tasks[r][k].func.ctor = "AsyncFunction"})

\* C4 witness: a drain ran one task, reached a synchronous callable and
\* rejected with the synchronous-function error.
C4_Witness ==
    \E r \in Requests :
        /\ Len(tasks[r]) >= 2
        /\ tasks[r][2].func = SyncTask
        /\ st[r][1] = "ok"
        /\ run[r].status = "rejected"
        /\ run[r].err.message = SyncMessage

\* C5: with onError configured, onError is never called more than once for a
\* drain, it is called only for a rejected drain, and once the catch callback
\* has run it has been called exactly once, with the very error value the
\* failing task raised.
C5_OnErrorOnce ==
    onError # "none" =>
        \A r \in Requests :
            /\ Len(onErrorCalls[r]) <= 1
            /\ onErrorCalls[r] # <<>> => run[r].status = "rejected"
            /\ catchSt[r] = "done" =>
                  /\ Len(onErrorCalls[r]) = 1
                  /\ onErrorCalls[r][1] = run[r].err
                  /\ onErrorCalls[r][1] \in Raised(r)

\* C5 witness: a synchronous onError has captured the error of a failing
\* first task.
C5_Witness ==
    \E r \in Requests :
        /\ onError = "sync"
        /\ Len(st[r]) >= 1
        /\ st[r][1] = "threw"
        /\ onErrorCalls[r] = <<TaskError(r, 1)>>

\* C6: a rejected drain always has the catch callback attached; before the
\* callback runs no sink has been called and the callback is ready to run as
\* soon as the thread is free, and after it has run exactly one
\* sink has been called, once: onError if configured, else console.error.
\* No rejection of a drain ends unhandled.
C6_ExactlyOneSink ==
    /\ \A r \in Requests : run[r].err \notin unhandled
    /\ \A r \in Requests :
          /\ run[r].status = "rejected" => catchSt[r] \in {"attached", "done"}
          /\ (catchSt[r] = "attached" /\ run[r].status = "rejected" /\ thread = Free)
                => ENABLED CatchHandler(r)
          /\ catchSt[r] # "done" => Len(onErrorCalls[r]) + Len(consoleCalls[r]) = 0
          /\ catchSt[r] = "done" =>
                /\ run[r].status = "rejected"
                /\ Len(onErrorCalls[r]) + Len(consoleCalls[r]) = 1
                /\ Len(onErrorCalls[r]) = 1 <=> onError # "none"

\* C6 witness: two drains have failed under a configured onError and each was
\* observed.
C6_Witness ==
    /\ onError # "none"
    /\ \A r \in Requests : catchSt[r] = "done" /\ Len(onErrorCalls[r]) = 1

\* C7: with no onError, once the catch callback has run the error the task
\* raised has been written to console.error with the fixed tag; the hook has
\* returned normally for every started drain, every rejection has the
\* callback attached, and nothing ends as an unhandled rejection.
C7_DefaultSink ==
    onError = "none" =>
        /\ unhandled = {}
        /\ \A r \in Requests :
              /\ run[r].status # "none" => phase[r] = "afterResponse"
              /\ run[r].status = "rejected" => catchSt[r] \in {"attached", "done"}
              /\ catchSt[r] = "done" =>
                    /\ consoleCalls[r] =
                          <<[tag |-> "[elysia-background] Task failed:",
                             error |-> run[r].err]>>
                    /\ run[r].err \in Raised(r)
                    /\ onErrorCalls[r] = <<>>

\* C7 witness: with no onError a task failed and its error is in the console
\* log.
C7_Witness ==
    \E r \in Requests :
        /\ onError = "none"
        /\ Len(consoleCalls[r]) = 1
        /\ consoleCalls[r][1].error = TaskError(r, 1)

\* C8: a request whose task or onError handler is suspended does not hold the
\* thread, and while it is suspended the next step of any other request's
\* handler is enabled: a new request can arrive when the thread is free, and a
\* handler that is running can return its response.
C8_NonBlocking ==
    \A a \in Requests :
        Suspended(a) =>
            /\ thread # a
            /\ \A b \in Requests \ {a} :
                  /\ (/\ thread = Free
                      /\ phase[b] = "new"
                      /\ \A q \in Requests : q < b => phase[q] # "new")
                        => ENABLED Arrive(b)
                  /\ thread = b => ENABLED Respond(b)

\* C8 witness: while a's task is suspended, request b has arrived and enqueued
\* a task, and its handler holds the thread, ready to return the response (no
\* job of a can have run since b arrived: they all need the free thread).
C8_Witness ==
    \E a, b \in Requests :
        /\ a # b
        /\ Suspended(a)
        /\ thread = b
        /\ phase[b] = "handling"
        /\ Len(tasks[b]) >= 1
        /\ ENABLED Respond(b)

\* C9: the catch callback calls onError and is done without waiting for it: a
\* plain onError has finished when the callback is done, a suspending one may
\* still be suspended while the callback is done and the hook has returned;
\* and a suspended handler eventually runs to completion (an async onError
\* that returns ends done, one that throws after its await ends rejected).
C9_HandlerNotAwaited ==
    /\ [](\A r \in Requests :
            /\ handler[r] = "suspended" =>
                  catchSt[r] = "done" /\ phase[r] = "afterResponse"
            /\ (catchSt[r] # "none" /\ catchSt[r] # "attached") =>
                  /\ catchSt[r] = "done"
                  /\ onError = "sync" => handler[r] = "done"
                  /\ onError = "async" => handler[r] \in {"suspended", "done"})
    /\ \A r \in Requests :
          (handler[r] = "suspended") ~>
             (handler[r] = IF onError = "async" THEN "done" ELSE "rejected")

\* C9 witness: the catch callback is done while the async onError it called
\* is still suspended.
C9_Witness ==
    \E r \in Requests :
        /\ onError = "async"
        /\ catchSt[r] = "done"
        /\ handler[r] = "suspended"
        /\ onErrorCalls[r] # <<>>

\* C10: when every task of a queue succeeds the drain does not reject, and
\* once it has resolved every task has been executed exactly once, in order,
\* and the counter equals the sum of the bound amounts.
C10_AllRunOnce ==
    \A r \in Requests :
        (\A k \in 1..Len(tasks[r]) : tasks[r][k].func \in {Increment, SlowTask}) =>
            /\ run[r].status # "rejected"
            /\ run[r].status = "resolved" =>
                  /\ started[r] = Positions(Len(tasks[r]))
                  /\ \A k \in 1..Len(tasks[r]) : st[r][k] = "ok"
                  /\ counter[r] = SumArgs(r, 1..Len(tasks[r]))

\* C10 witness: three tasks bound to 1, 2 and 3 were drained and the counter
\* is 6.
C10_Witness ==
    \E r \in Requests :
        /\ run[r].status = "resolved"
        /\ Len(tasks[r]) = 3
        /\ \A k \in 1..3 : tasks[r][k].args = HandlerArgs(k)
        /\ counter[r] = 6

\* C11: the response of a request is the handler's result, status 200 and
\* the handler's body, from the moment it is produced and in every later
\* state: whether the request's tasks are queued, suspended, succeeded or
\* failed, and whatever the sinks did.
C11_ResponseIndependent ==
    \A r \in Requests :
        /\ phase[r] \in {"new", "handling"} => response[r] = NoResponse
        /\ phase[r] \in {"responded", "afterResponse"} =>
              response[r] = [status |-> 200, body |-> "task initiated"]

\* C11 witness: one request's drain failed, another's succeeded, and both
\* clients hold the same response.
C11_Witness ==
    \E a, b \in Requests :
        /\ run[a].status = "rejected"
        /\ catchSt[a] = "done"
        /\ run[b].status = "resolved"
        /\ Len(tasks[b]) >= 1
        /\ response[a] = response[b]
        /\ response[a].status = 200

\* The queue of r and everything its drain has done.
QueueState(r) == <<tasks[r], st[r], started[r], counter[r], run[r]>>

\* C12: a step that changes one request's queue or drain changes no other
\* request's queue or drain (an addTask grows one queue only, a drain invokes
\* only callables of its own queue); a request that has not arrived has no
\* tasks, derive() gives it an empty queue of its own, and a drain never
\* invokes a position outside its own queue.
C12_QueueIsolation ==
    /\ [][\A q \in Requests :
             QueueState(q)' # QueueState(q) =>
                \A p \in Requests \ {q} : QueueState(p)' = QueueState(p)]_vars
    /\ [][\A q \in Requests :
             (phase[q] = "new" /\ phase'[q] = "handling") => tasks'[q] = <<>>]_vars
    /\ [](\A q \in Requests :
             /\ phase[q] = "new" => tasks[q] = <<>>
             /\ Len(st[q]) = Len(tasks[q])
             /\ \A i \in 1..Len(started[q]) : started[q][i] \in 1..Len(tasks[q]))

\* C12 witness: two requests enqueued different tasks and each drain ran its
\* own.
C12_Witness ==
    \E a, b \in Requests :
        /\ a # b
        /\ Len(tasks[a]) = 2
        /\ Len(tasks[b]) = 1
        /\ tasks[a][1].func # tasks[b][1].func
        /\ started[a] = <<1, 2>>
        /\ started[b] = <<1>>

\* C13: a step that changes a queue's task sequence appends exactly one task:
\* the length grows by one, the tasks already there keep their positions,
\* callables and bound arguments, and the new task is the last.
C13_AppendOne ==
    [][\A r \in Requests :
          tasks'[r] # tasks[r] =>
             /\ Len(tasks'[r]) = Len(tasks[r]) + 1
             /\ SubSeq(tasks'[r], 1, Len(tasks[r])) = tasks[r]
             /\ tasks'[r][Len(tasks'[r])].func \in Functions
             /\ tasks'[r][Len(tasks'[r])].args = HandlerArgs(Len(tasks[r]) + 1)]_vars

\* C13 witness: three different callables were added and sit in the order of
\* their addTask calls.
C13_Witness ==
    \E r \in Requests :
        /\ Len(tasks[r]) = 3
        /\ tasks[r][1].func = SyncTask
        /\ tasks[r][2].func = FailingTask
        /\ tasks[r][3].func = Increment
        /\ \A k \in 1..3 : tasks[r][k].args = HandlerArgs(k)

\* C14: while a handler runs, addTask is possible for every callable, async
\* or not (within the model's bound on addTask calls); the step that adds a
\* task keeps the thread (it does not suspend), leaves the task queued, starts
\* no drain and raises no error.
C14_AddTaskNeverFails ==
    /\ [](\A r \in Requests :
             (thread = r /\ phase[r] = "handling" /\ TotalTasks < MaxTasks) =>
                \A func \in Functions : ENABLED AddTask(r, func))
    /\ [][\A r \in Requests :
             Len(tasks'[r]) > Len(tasks[r]) =>
                /\ thread = r /\ thread' = r
                /\ phase'[r] = "handling"
                /\ st'[r][Len(st'[r])] = "queued"
                /\ run' = run
                /\ started' = started
                /\ unhandled' = unhandled
                /\ <<onErrorCalls, consoleCalls, handler>>' =
                      <<onErrorCalls, consoleCalls, handler>>]_vars

\* C14 witness: a handler added a synchronous callable and then an async one,
\* and is still running.
C14_Witness ==
    \E r \in Requests :
        /\ thread = r
        /\ phase[r] = "handling"
        /\ Len(tasks[r]) = 2
        /\ tasks[r][1].func = SyncTask
        /\ tasks[r][2].func = Increment
        /\ st[r] = <<"queued", "queued">>

\* C15: the drain of a queue with no tasks has resolved when the hook
\* returns: no callable was invoked, the counter is untouched, and neither
\* onError nor console.error is ever called for it.
C15_EmptyQueue ==
    \A r \in Requests :
        (phase[r] = "afterResponse" /\ Len(tasks[r]) = 0) =>
            /\ run[r] = [status |-> "resolved", idx |-> 0, err |-> NoError,
                         calls |-> 1]
            /\ started[r] = <<>>
            /\ counter[r] = 0
            /\ onErrorCalls[r] = <<>>
            /\ consoleCalls[r] = <<>>
            /\ handler[r] = "none"
            /\ catchSt[r] = "attached"
            /\ ~ ENABLED CatchHandler(r)

\* C15 witness: a request that enqueued nothing was drained while another
\* request's drain failed and was reported.
C15_Witness ==
    \E r, q \in Requests :
        /\ phase[r] = "afterResponse"
        /\ tasks[r] = <<>>
        /\ run[r].status = "resolved"
        /\ catchSt[q] = "done"

\* C16: a drain of tasks that all succeed resolves with no value; a sink is
\* called, and the catch callback runs, only for a drain that has rejected: a
\* resolved or pending drain has no sink call.
C16_SinkOnlyOnFailure ==
    \A r \in Requests :
        /\ run[r].status = "resolved" =>
              /\ run[r].err = NoError
              /\ \A k \in 1..Len(st[r]) : st[r][k] = "ok"
        /\ run[r].status # "rejected" =>
              /\ onErrorCalls[r] = <<>>
              /\ consoleCalls[r] = <<>>
              /\ handler[r] = "none"
              /\ catchSt[r] \in {"none", "attached"}
              /\ ~ ENABLED CatchHandler(r)

\* C16 witness: a drain of two succeeding tasks has resolved and no sink was
\* called for it.
C16_Witness ==
    \E r \in Requests :
        /\ Len(tasks[r]) = 2
        /\ st[r] = <<"ok", "ok">>
        /\ run[r].status = "resolved"
        /\ onErrorCalls[r] = <<>>
        /\ consoleCalls[r] = <<>>

\* C17: when the configured onError fails (a plain function that throws, or
\* an async one that rejects), onError has still been called at most once,
\* console.error is never called as a fallback, the callback cannot run
\* again, the drain's own rejection is unchanged, and the handler's error is
\* an unhandled rejection; nothing else is.
C17_OnErrorFailureUnhandled ==
    onError \in {"syncThrow", "asyncReject"} =>
        /\ unhandled \subseteq {HandlerError(q) : q \in Requests}
        /\ \A r \in Requests :
              /\ Len(onErrorCalls[r]) <= 1
              /\ consoleCalls[r] = <<>>
              /\ handler[r] \in {"threw", "rejected"} <=> HandlerError(r) \in unhandled
              /\ handler[r] \in {"threw", "rejected"} =>
                    /\ catchSt[r] = "done"
                    /\ run[r].status = "rejected"
                    /\ run[r].err \in Raised(r)
                    /\ onErrorCalls[r] = <<run[r].err>>
                    /\ ~ ENABLED CatchHandler(r)
              /\ onError = "syncThrow" => handler[r] \in {"none", "threw"}

\* C17 witness: an async onError rejected after its await, and its error is
\* an unhandled rejection.
C17_Witness ==
    \E r \in Requests :
        /\ onError = "asyncReject"
        /\ handler[r] = "rejected"
        /\ unhandled = {HandlerError(r)}
        /\ Len(onErrorCalls[r]) = 1

\* The outcome run() settles with is the one its loop yields: resolved after
\* the last task, with every task completed, or rejected at the first task
\* that failed, with nothing after it started.
SettledAsLoop(r) ==
    /\ run[r].status = "resolved" =>
          /\ run[r].idx = Len(tasks[r])
          /\ \A k \in 1..Len(st[r]) : st[r][k] = "ok"
    /\ run[r].status = "rejected" =>
          /\ run[r].idx \in 1..Len(tasks[r])
          /\ st[r][run[r].idx] \in {"threw", "refused"}
          /\ \A k \in 1..Len(st[r]) :
                /\ k < run[r].idx => st[r][k] = "ok"
                /\ k > run[r].idx => st[r][k] = "queued"

\* C18: once run() is invoked (the handler adds no task during the drain and
\* every timer a task awaits fires), run() eventually settles: it does not
\* stay pending forever; it resolves after the last task or rejects at the
\* first failure.
C18_RunSettles ==
    /\ [](\A r \in Requests : SettledAsLoop(r))
    /\ \A r \in Requests :
          (run[r].status = "pending") ~> (run[r].status \in {"resolved", "rejected"})

\* C18 witness: a drain that had to wait for a timer has resolved after its
\* last task, and another one has rejected at a failure behind a waiting task.
C18_Witness ==
    \E a, b \in Requests :
        /\ a # b
        /\ Len(tasks[a]) >= 1
        /\ tasks[a][Len(tasks[a])].func = SlowTask
        /\ run[a].status = "resolved"
        /\ Len(tasks[b]) = 2
        /\ tasks[b][1].func = SlowTask
        /\ tasks[b][2].func = FailingTask
        /\ run[b].status = "rejected"

\* The first position of r's queue that holds a synchronous function, 0 if
\* there is none.
FirstSync(r) ==
    LET bad == {k \in 1..Len(tasks[r]) : ~isAsyncFunction(tasks[r][k].func)}
    IN IF bad = {} THEN 0 ELSE CHOOSE k \in bad : \A j \in bad : k <= j

\* The tasks before position k of r's queue all hold functions that succeed.
SucceedBefore(r, k) ==
    \A j \in 1..(k - 1) :
        isAsyncFunction(tasks[r][j].func) /\ ~tasks[r][j].func.throws

\* C19, in each state: with a synchronous callable at position k > 1 behind
\* tasks that succeed, the drain does not reject before it reaches k; when k
\* is refused, tasks 1..k-1 have each been started once and have completed,
\* the callable at k was not invoked, and no task after k is started.
C19_State ==
    \A r \in Requests :
        LET k == FirstSync(r)
        IN (k > 1 /\ SucceedBefore(r, k)) =>
              /\ st[r][k] \in {"queued", "refused"}
              /\ \A i \in 1..Len(started[r]) : started[r][i] # k
              /\ run[r].idx < k => run[r].status # "rejected"
              /\ run[r].status = "rejected" => run[r].err = SyncError(r, k)
              /\ st[r][k] = "refused" =>
                    /\ run[r].idx = k
                    /\ started[r] = Positions(k - 1)
                    /\ \A j \in 1..(k - 1) : st[r][j] = "ok"
                    /\ \A j \in (k + 1)..Len(st[r]) : st[r][j] = "queued"
                    /\ counter[r] = SumArgs(r, 1..(k - 1))

\* C19, in each step: once the callable at k is refused nothing of the queue
\* runs again (no retry, no later task), and a rejected run() stays rejected
\* with the same error.
C19_Step ==
    \A r \in Requests :
        LET k == FirstSync(r)
        IN (k > 1 /\ st[r][k] = "refused") =>
              /\ st'[r] = st[r]
              /\ started'[r] = started[r]
              /\ counter'[r] = counter[r]
              /\ tasks'[r] = tasks[r]
              /\ run[r].status = "rejected" => run'[r] = run[r]

\* C19: when a synchronous callable is at position k > 1, the drain aborts
\* only on reaching it: tasks 1..k-1 have run to successful completion before
\* the rejection, the synchronous callable is not invoked, tasks after k are
\* never started, and the error is never retried.
C19_SyncAbortsAtK ==
    /\ []C19_State
    /\ [][C19_Step]_vars

\* C19 witness: a queue of three with a synchronous function in the middle;
\* the first task waited for its timer and completed, run() rejected with the
\* synchronous-function error of position 2, the third task is still queued.
C19_Witness ==
    \E r \in Requests :
        /\ Len(tasks[r]) = 3
        /\ tasks[r][1].func = SlowTask
        /\ tasks[r][2].func = SyncTask
        /\ tasks[r][3].func = Increment
        /\ st[r] = <<"ok", "refused", "queued">>
        /\ started[r] = <<1>>
        /\ run[r].status = "rejected"
        /\ run[r].err = SyncError(r, 2)

\* A callable whose invocation yields a computation that can suspend: an
\* async function, or a function that returns a promise.
SuspensionCapable(func) == func.ctor = "AsyncFunction" \/ func.awaits

\* C20 as stated: every suspension-capable callable is classified as
\* suspending at construction and is not refused when drained.
C20_AnySuspensionCapable ==
    \A r \in Requests : \A k \in 1..Len(tasks[r]) :
        SuspensionCapable(tasks[r][k].func) =>
            /\ tasks[r][k].isAsync
            /\ st[r][k] # "refused"

\* C20 amended: a callable is classified as suspending exactly when it is
\* declared async (its constructor is AsyncFunction).  Such a callable is
\* invoked, not refused, when the drain reaches it; any other callable,
\* including one that returns a promise, is refused when the drain reaches it
\* and is not invoked.
C20_AsyncDeclaredOnly ==
    \A r \in Requests : \A k \in 1..Len(tasks[r]) :
        /\ tasks[r][k].isAsync <=> tasks[r][k].func.ctor = "AsyncFunction"
        /\ tasks[r][k].func.ctor = "AsyncFunction" =>
              /\ st[r][k] # "refused"
              /\ run[r].idx = k => st[r][k] \in {"suspended", "ok", "threw"}
        /\ tasks[r][k].func.ctor # "AsyncFunction" =>
              /\ st[r][k] \in {"queued", "refused"}
              /\ run[r].idx = k => st[r][k] = "refused"

\* C20 witness: a drain executed an async function and then refused a
\* function that returns a promise.
C20_Witness ==
    \E r \in Requests :
        /\ Len(tasks[r]) >= 2
        /\ tasks[r][1].func = SlowTask
        /\ st[r][1] = "ok"
        /\ tasks[r][2].func = PromiseTask
        /\ st[r][2] = "refused"
        /\ run[r].err = SyncError(r, 2)

\* C21, in each state: the recorded classification of every task is the one
\* the constructor computed from its callable, and what run() did with the
\* task, in the hook's drain and in any later one, follows the recorded value.
C21_State ==
    \A r \in Requests : \A k \in 1..Len(tasks[r]) :
        /\ tasks[r][k].isAsync = isAsyncFunction(tasks[r][k].func)
        /\ st[r][k] = "refused" => ~tasks[r][k].isAsync
        /\ st[r][k] \in {"suspended", "ok", "threw"} => tasks[r][k].isAsync

\* C21, in each step: no step (an addTask or a run on any queue) changes an
\* existing task, and a callable that completes has added to the counter the
\* first of the arguments bound to its task, so it was called with the bound
\* arguments in their order.
C21_Step ==
    \A r \in Requests :
        /\ Len(tasks'[r]) >= Len(tasks[r])
        /\ \A k \in 1..Len(tasks[r]) : tasks'[r][k] = tasks[r][k]
        /\ counter'[r] # counter[r] =>
              \E k \in 1..Len(tasks[r]) :
                  /\ st'[r][k] \in {"ok", "threw"}
                  /\ run'[r].idx = k
                  /\ counter'[r] = counter[r] + tasks[r][k].args[1]
        /\ \A k \in 1..Len(tasks[r]) :
              (/\ st'[r][k] \in {"ok", "threw"}
               /\ st[r][k] \notin {"ok", "threw"} \/ run'[r].calls # run[r].calls) =>
                 counter'[r] = counter[r] + tasks[r][k].args[1]

\* C21: a task's classification is computed at construction and every run()
\* of the task uses the recorded value; no addTask or run changes the
\* classification, callable or bound arguments of an existing task; the
\* callable is invoked with exactly the bound arguments, in the same order.
C21_TaskImmutable ==
    /\ []C21_State
    /\ [][C21_Step]_vars

\* C21 witness: a queue was drained twice; both times the first task added
\* its bound amount and the synchronous function after it was refused.
C21_Witness ==
    \E r \in Requests :
        /\ Len(tasks[r]) = 2
        /\ tasks[r][1] = [func |-> Increment, args |-> HandlerArgs(1), isAsync |-> TRUE]
        /\ tasks[r][2] = [func |-> SyncTask, args |-> HandlerArgs(2), isAsync |-> FALSE]
        /\ run[r].calls = 2
        /\ run[r].status = "rejected"
        /\ run[r].err = SyncError(r, 2)
        /\ counter[r] = 2
        /\ started[r] = <<1, 1>>

\* C22: with the drains of two requests in progress together, each queue
\* keeps its own order (its invocation log is 1, 2, ..., at most one of its
\* tasks is running, a task starts only after its predecessor succeeded); a
\* drain fails only with the error of a task of its own queue, at the
\* position it had reached; a drain that resolved ran all its tasks; and
\* after the other drain has failed, the next step of this one (the timer of
\* its waiting task, or the loop going on) is still possible.
C22_IndependentDrains ==
    \A a, b \in Requests :
        a # b =>
           /\ started[b] = Positions(Len(started[b]))
           /\ Cardinality(Running(b)) <= 1
           /\ \A k \in 2..Len(st[b]) : st[b][k] # "queued" => st[b][k - 1] = "ok"
           /\ run[b].status = "rejected" =>
                 /\ run[b].err.task = <<b, run[b].idx>>
                 /\ st[b][run[b].idx] \in {"threw", "refused"}
           /\ run[b].status = "resolved" =>
                 \A k \in 1..Len(st[b]) : st[b][k] = "ok"
           /\ (run[a].status = "rejected" /\ run[b].status = "pending"
                  /\ thread = Free) =>
                 IF st[b][run[b].idx] = "suspended"
                 THEN ENABLED TaskResume(b)
                 ELSE ENABLED RunAdvance(b)

\* C22 witness: both drains were waiting on a timer; then a's second task
\* failed and its drain rejected, while b's task is still waiting and its
\* timer can fire.
C22_Witness ==
    \E a, b \in Requests :
        /\ a # b
        /\ Len(tasks[a]) = 2
        /\ tasks[a][1].func = SlowTask
        /\ tasks[a][2].func = FailingTask
        /\ run[a].status = "rejected"
        /\ run[a].err = TaskError(a, 2)
        /\ Len(tasks[b]) = 1
        /\ tasks[b][1].func = SlowTask
        /\ st[b][1] = "suspended"
        /\ run[b].status = "pending"
        /\ ENABLED TaskResume(b)

\* The positions of r's queue whose task was added after the response, while
\* the drain was in progress.
LateTasks(r) == {k \in 1..Len(tasks[r]) : tasks[r][k].args = LateArgs(k)}

\* C23, in each state: tasks, late ones included, are invoked in queue order,
\* each after its predecessor succeeded; a drain that resolved has run every
\* task of the queue, so every task added during it was executed in it.
C23_State ==
    \A r \in Requests :
        /\ started[r] = Positions(Len(started[r]))
        /\ \A k \in 2..Len(st[r]) : st[r][k] # "queued" => st[r][k - 1] = "ok"
        /\ run[r].status = "resolved" =>
              /\ run[r].idx = Len(tasks[r])
              /\ \A k \in 1..Len(st[r]) : st[r][k] = "ok"
              /\ \A k \in LateTasks(r) : \E i \in 1..Len(started[r]) : started[r][i] = k

\* C23, in each step: the loop looks at the sequence as it is when it goes
\* on, not as it was when run() was called: it resolves only from the last
\* position of the current sequence, and from any other position whose task
\* succeeded it starts the next task, were it added during the drain.
C23_Step ==
    \A r \in Requests :
        (run[r].status = "pending" /\ run'[r] # run[r]) =>
           IF st[r][run[r].idx] # "ok"
           THEN run'[r].status = "rejected"
           ELSE IF run[r].idx = Len(tasks[r])
           THEN run'[r].status = "resolved"
           ELSE /\ run'[r].status = "pending"
                /\ run'[r].idx = run[r].idx + 1
                /\ st'[r][run'[r].idx] # "queued"

\* C23: a task appended while run() is in progress on the same queue is
\* executed in that same drain (unless the drain fails before it), after
\* every task enqueued before it; the drain takes no snapshot of the sequence.
C23_LateTaskRuns ==
    /\ []C23_State
    /\ [][C23_Step]_vars

\* C23 witness: while the first task was waiting, a second task was added to
\* the queue; the drain ran it after the first and then resolved.
C23_Witness ==
    \E r \in Requests :
        /\ Len(tasks[r]) = 2
        /\ tasks[r][1].func = SlowTask
        /\ tasks[r][1].args = HandlerArgs(1)
        /\ tasks[r][2].func = Increment
        /\ tasks[r][2].args = LateArgs(2)
        /\ started[r] = <<1, 2>>
        /\ st[r] = <<"ok", "ok">>
        /\ counter[r] = 3
        /\ run[r].status = "resolved"

\* The sequence s repeated n times.
RECURSIVE RepeatSeq(_, _)
RepeatSeq(s, n) == IF n = 0 THEN <<>> ELSE s \o RepeatSeq(s, n - 1)

\* The number of callables one settled run() of r's queue invokes: all of
\* them if it resolved, else those up to the failure (a refused one is not
\* invoked).
Invoked(r) ==
    IF run[r].status = "resolved" THEN Len(tasks[r])
    ELSE IF st[r][run[r].idx] = "refused" THEN run[r].idx - 1
    ELSE run[r].idx

\* C24, in each state: when the latest of c calls of run() has settled, the
\* invocation log is c times the log of one run and the counter c times the
\* amounts of one run: every call executed the tasks again, from the first.
C24_State ==
    \A r \in Requests :
        run[r].status \in {"resolved", "rejected"} =>
           /\ started[r] = RepeatSeq(Positions(Invoked(r)), run[r].calls)
           /\ counter[r] = run[r].calls * SumArgs(r, 1..Invoked(r))

\* C24, in each step: a step of run() (one that changes the drain, the log or
\* the counter) leaves the task sequence as it is; a call of run() after the
\* first starts at position 1 with every later task not yet started, and
\* invokes the first callable again.
C24_Step ==
    \A r \in Requests :
        /\ (run'[r] # run[r] \/ started'[r] # started[r] \/ counter'[r] # counter[r]) =>
              tasks'[r] = tasks[r]
        /\ (run[r].calls >= 1 /\ run'[r].calls = run[r].calls + 1
               /\ Len(tasks[r]) > 0) =>
              /\ run'[r].status = "pending"
              /\ run'[r].idx = 1
              /\ st'[r][1] # "queued"
              /\ \A k \in 2..Len(st'[r]) : st'[r][k] = "queued"
              /\ tasks[r][1].isAsync => started'[r] = Append(started[r], 1)

\* C24: run() leaves the queue's task sequence unchanged, whether it
\* succeeds or fails: it removes no task and records no progress, so a
\* second call of run() on the same queue starts again from the first task
\* and executes again the tasks the first call executed.
C24_RunKeepsQueue ==
    /\ []C24_State
    /\ [][C24_Step]_vars

\* C24 witness: a queue of two tasks was drained twice; both tasks ran twice
\* and the queue still holds them.
C24_Witness ==
    \E r \in Requests :
        /\ Len(tasks[r]) = 2
        /\ tasks[r][1].func = Increment
        /\ tasks[r][2].func = SlowTask
        /\ run[r].calls = 2
        /\ run[r].status = "resolved"
        /\ started[r] = <<1, 2, 1, 2>>
        /\ counter[r] = 6

\* C25: in the step in which the hook calls run() on a non-empty queue, the
\* first task is run inside the call: an async callable is invoked and has
\* run to its first await, or to its end (with its amount added) if it has
\* none; a function that is not async is refused.  No later task is started
\* in that step, even if the first has finished: run() is pending at
\* position 1 and the hook has the thread back.
C25_FirstTaskInHook ==
    [][\A r \in Requests :
          (phase[r] = "responded" /\ phase'[r] = "afterResponse"
             /\ Len(tasks[r]) > 0) =>
             LET task == tasks[r][1]
             IN /\ st'[r][1] =
                      IF ~task.isAsync THEN "refused"
                      ELSE IF task.func.awaits THEN "suspended"
                      ELSE IF task.func.throws THEN "threw" ELSE "ok"
                /\ started'[r] = IF task.isAsync THEN <<1>> ELSE <<>>
                /\ counter'[r] =
                      IF task.isAsync /\ ~task.func.awaits THEN task.args[1] ELSE 0
                /\ \A k \in 2..Len(st'[r]) : st'[r][k] = "queued"
                /\ run'[r].status = "pending"
                /\ run'[r].idx = 1
                /\ thread' = Free]_vars

\* C25 witness: the hook has returned; the first task, which does not wait,
\* has added its amount, the second is still queued and run() is pending.
C25_Witness ==
    \E r \in Requests :
        /\ phase[r] = "afterResponse"
        /\ Len(tasks[r]) = 2
        /\ tasks[r][1].func = Increment
        /\ tasks[r][2].func = Increment
        /\ st[r] = <<"ok", "queued">>
        /\ started[r] = <<1>>
        /\ counter[r] = 1
        /\ run[r].status = "pending"
        /\ run[r].idx = 1
        /\ thread = Free

\* C26, in each state: as long as the callable of the task at position k has
\* not settled, the drain is pending at k, no later task has been started,
\* neither sink has been called for the queue, and neither the loop nor the
\* catch callback can take a step.
C26_State ==
    \A r \in Requests : \A k \in 1..Len(st[r]) :
        st[r][k] = "suspended" =>
           /\ run[r].status = "pending"
           /\ run[r].idx = k
           /\ \A j \in (k + 1)..Len(st[r]) : st[r][j] = "queued"
           /\ started[r] = Positions(k)
           /\ onErrorCalls[r] = <<>>
           /\ consoleCalls[r] = <<>>
           /\ handler[r] = "none"
           /\ ~ENABLED RunAdvance(r)
           /\ ~ENABLED CatchHandler(r)

\* C26, in each step: a step that leaves the callable unsettled leaves the
\* drain as it is; no step of anything else (a timeout, a cancellation, the
\* other requests) ends it.
C26_Step ==
    \A r \in Requests : \A k \in 1..Len(st[r]) :
        (st[r][k] = "suspended" /\ st'[r][k] = "suspended") =>
           /\ run'[r] = run[r]
           /\ started'[r] = started[r]
           /\ tasks'[r] = tasks[r]

\* C26: if a task's callable never settles, the drain stays pending forever:
\* in every state in which it has not settled no later task of the queue has
\* been started and neither onError nor the default sink has been invoked for
\* it, and nothing but the callable's own settling ends the drain.
C26_NoTimeout ==
    /\ []C26_State
    /\ [][C26_Step]_vars

\* C26 witness: everything else has run to its end and a drain is still
\* pending on its first task, with a second task queued: no step is possible
\* but the firing of the timer that task waits for.
C26_Witness ==
    \E r \in Requests :
        /\ Len(tasks[r]) = 2
        /\ st[r] = <<"suspended", "queued">>
        /\ run[r].status = "pending"
        /\ thread = Free
        /\ \A q \in Requests :
              /\ phase[q] = "afterResponse"
              /\ ~ENABLED RunAdvance(q)
              /\ ~ENABLED CatchHandler(q)
              /\ ~ENABLED OnErrorResume(q)
              /\ q # r => ~ENABLED TaskResume(q)

====
